---- MODULE Spec2Model ----
(***************************************************************************)
(* Model of the Cube.js model editor backend (server.js, carried at the    *)
(* end of cube-editor/CUBE_EDITOR_DOCUMENTATION.md): the in-memory model   *)
(* map, the ConfigMap file it is dumped to, and the kubectl commands the   *)
(* deploy and delete handlers run against the cluster.                     *)
(*                                                                         *)
(* Strings whose content the code inspects are sequences: a model name is  *)
(* a sequence of characters (the code appends and strips '.js'), a model   *)
(* text is a sequence of lexemes (the code tests it for truthiness, looks  *)
(* for substrings in it and hands it to new Function).  A lexeme is named  *)
(* by the substring it carries: "cube(" and "view(" are the identifier     *)
(* with its opening parenthesis, ")" closes it, "sql:" and "cubes:" are    *)
(* the object literals {sql:1} and {cubes:1}, any other lexeme is an       *)
(* identifier; the lexemes of a text stand on one line, blanks between.    *)
(* A JS object is a sequence of [k, v] entries in insertion order, which   *)
(* is the order Object.keys enumerates.  The YAML file is held as the data *)
(* map js-yaml parses it to.                                               *)
(***************************************************************************)
EXTENDS Integers, Sequences, FiniteSets, TLC

VARIABLES
    currentModels,     \* server.js: let currentModels = {}
    configMapFile,     \* data map of the file at CONFIGMAP_PATH
    appliedConfigMap,  \* data map of ConfigMap cube-models in the cluster
    volumeMounts,      \* containers[0].volumeMounts of deployment/cube (mountPaths)
    req,               \* the async handlers in flight, one record per slot
    issued,            \* number of deploy/delete requests received so far
    edits,             \* number of out-of-band edits of the file so far
    validateCode,      \* req.body.code of a POST /api/validate
    validateRes,       \* the JSON that request was answered with
    replicas,          \* .spec.replicas of each deployment of the namespace
    latestBackup,      \* scaling-backups/latest-replica-counts.txt
    script,            \* the run of scale-down.sh or scale-up.sh at the terminal
    history,           \* how the runs of the two scripts ended, oldest first
    original,          \* replicas before any script ran
    passthrough        \* the last GET /api/cluster/status, /api/cluster/logs, /api/test/sql

\* what the handlers of server.js that deploy and delete work on
serverVars == <<currentModels, configMapFile, appliedConfigMap, volumeMounts,
                req, issued, edits>>

\* what POST /api/validate works on
validateVars == <<validateCode, validateRes>>

\* what scale-down.sh and scale-up.sh work on; history and original are no state of
\* the scripts: they record the runs for the properties
scaleVars == <<replicas, latestBackup, script, history, original>>

\* what the three passthrough routes work on
probeVars == <<passthrough>>

toolVars == <<validateVars, scaleVars, probeVars>>

vars == <<serverVars, toolVars>>

-----------------------------------------------------------------------------
(* Bounds *)

MaxRequests == 2
MaxEdits == 1

Procs == {1, 2}

-----------------------------------------------------------------------------
(* Strings *)

JS == <<".", "j", "s">>

NameX == <<"x">>
NameXJs == <<"x", ".", "j", "s">>
NameJsX == <<".", "j", "s", "x">>
Names == {NameX, NameXJs, NameJsX}

EmptyText == << >>
CubeText == <<"cube(", "sql:", ")">>
PlainText == <<"not", "a", "model">>
Texts == {EmptyText, CubeText, PlainText}

\* String.prototype.includes: pat occurs in s as a contiguous run
Includes(s, pat) ==
    \E i \in 1..(Len(s) - Len(pat) + 1) : SubSeq(s, i, i + Len(pat) - 1) = pat

\* String.prototype.replace(pat, ''): the first occurrence of pat is removed
ReplaceFirst(s, pat) ==
    IF ~Includes(s, pat) THEN s
    ELSE LET i == CHOOSE j \in 1..(Len(s) - Len(pat) + 1) :
                    /\ SubSeq(s, j, j + Len(pat) - 1) = pat
                    /\ \A h \in 1..(j - 1) : SubSeq(s, h, h + Len(pat) - 1) # pat
         IN  SubSeq(s, 1, i - 1) \o SubSeq(s, i + Len(pat), Len(s))

\* `${name}.js`
FileKey(name) == name \o JS

\* variant: the key is taken as the model name, '.js' and all
KeyToModelNameKeepsJs(key) == key

\* key.replace('.js', '')
KeyToModelName(key) == ReplaceFirst(key, JS)

\* `/cube/conf/model/${modelName}.js`
MountPath(modelName) == <<"/cube/conf/model/">> \o modelName \o JS

-----------------------------------------------------------------------------
(* JS objects as insertion-ordered entry lists *)

KeysOf(obj) == {obj[i].k : i \in DOMAIN obj}

HasKey(obj, key) == key \in KeysOf(obj)

ValueOf(obj, key) == obj[CHOOSE i \in DOMAIN obj : obj[i].k = key].v

\* obj[key] = value: an existing key keeps its place, a new one goes last
SetKey(obj, key, value) ==
    IF HasKey(obj, key)
    THEN [i \in DOMAIN obj |-> IF obj[i].k = key THEN [k |-> key, v |-> value]
                                                  ELSE obj[i]]
    ELSE Append(obj, [k |-> key, v |-> value])

\* delete obj[key]
DeleteKey(obj, key) == SelectSeq(obj, LAMBDA e : e.k # key)

-----------------------------------------------------------------------------
(* ConfigMap file <-> in-memory map *)

RECURSIVE LoadEntries(_, _, _)
\* Object.keys(configMap.data).forEach(key => currentModels[key.replace('.js','')] = data[key])
LoadEntries(models, data, i) ==
    IF i > Len(data) THEN models
    ELSE LoadEntries(SetKey(models, KeyToModelName(data[i].k), data[i].v), data, i + 1)

\* loadExistingModels(): the entries of the file are written over currentModels
loadExistingModels(models, data) == LoadEntries(models, data, 1)

RECURSIVE DumpEntries(_, _, _)
\* Object.keys(currentModels).forEach(name => configMap.data[`${name}.js`] = currentModels[name])
DumpEntries(data, models, i) ==
    IF i > Len(models) THEN data
    ELSE DumpEntries(SetKey(data, FileKey(models[i].k), models[i].v), models, i + 1)

\* variant: the loop over Object.keys starts one entry late
ConfigMapDataSkipsFirst(models) == DumpEntries(<< >>, models, 2)

\* the data map of the ConfigMap the handlers build from currentModels and write out
ConfigMapData(models) == DumpEntries(<< >>, models, 1)

\* app.get('/api/models/:name'): if (currentModels[modelName]) ... else 404
GetModel(models, modelName) ==
    IF HasKey(models, modelName) /\ ValueOf(models, modelName) # EmptyText
    THEN [status |-> 200, model |-> ValueOf(models, modelName)]
    ELSE [status |-> 404, model |-> EmptyText]

\* variant: only the cube( marker is looked for
HasMarkerCubeOnly(code) == Includes(code, <<"cube(">>)

\* code.includes('cube(') || code.includes('view(')
HasMarker(code) == Includes(code, <<"cube(">>) \/ Includes(code, <<"view(">>)

\* checkIfModelMountExists: deploymentYaml.includes(`/cube/conf/model/${modelName}.js`)
checkIfModelMountExists(mounts, modelName) ==
    \E i \in DOMAIN mounts : Includes(mounts[i], MountPath(modelName))

\* variant: the index is counted from 1
FindIndexOneBased(mounts, modelName) ==
    IF \E i \in DOMAIN mounts : mounts[i] = MountPath(modelName)
    THEN CHOOSE i \in DOMAIN mounts :
            /\ mounts[i] = MountPath(modelName)
            /\ \A h \in 1..(i - 1) : mounts[h] # MountPath(modelName)
    ELSE -1

\* volumeMounts.findIndex(mount => mount.mountPath === path), 0-based, -1 when absent
FindIndex(mounts, modelName) ==
    IF \E i \in DOMAIN mounts : mounts[i] = MountPath(modelName)
    THEN (CHOOSE i \in DOMAIN mounts :
             /\ mounts[i] = MountPath(modelName)
             /\ \A h \in 1..(i - 1) : mounts[h] # MountPath(modelName)) - 1
    ELSE -1

\* JSON patch op "remove" at /volumeMounts/<index>
RemoveAt(mounts, index) ==
    SubSeq(mounts, 1, index) \o SubSeq(mounts, index + 2, Len(mounts))

-----------------------------------------------------------------------------
(* app.post('/api/validate') *)

MaxLexemes == 3

Lexemes == {"cube(", "view(", "sql:", "cubes:", ")", "a"}

\* the texts a POST /api/validate is sent with
ValidateTexts == UNION {[1..k -> Lexemes] : k \in 0..MaxLexemes}

IsOpen(lexeme) == lexeme \in {"cube(", "view("}

IsObject(lexeme) == lexeme \in {"sql:", "cubes:"}

IsWord(lexeme) == ~IsOpen(lexeme) /\ ~IsObject(lexeme) /\ lexeme # ")"

\* a call expression starting at code[i]: the index after its closing parenthesis, 0
\* when there is none.  Between the parentheses stands nothing or one expression: an
\* identifier, an object literal or a call; two expressions on a line with no comma
\* between them do not parse.
RECURSIVE ParseCall(_, _)
ParseCall(code, i) ==
    IF i + 1 > Len(code) THEN 0
    ELSE IF code[i + 1] = ")" THEN i + 2
    ELSE IF IsOpen(code[i + 1])
         THEN LET j == ParseCall(code, i + 1)
              IN  IF j # 0 /\ j <= Len(code) /\ code[j] = ")" THEN j + 1 ELSE 0
    ELSE IF i + 2 <= Len(code) /\ code[i + 2] = ")" THEN i + 3
    ELSE 0

\* at the start of a statement {sql:1} is a block holding a labelled statement, and a
\* block needs no semicolon after it: the index of the first lexeme from i on that is
\* no such block
RECURSIVE SkipBlocks(_, _)
SkipBlocks(code, i) ==
    IF i <= Len(code) /\ IsObject(code[i]) THEN SkipBlocks(code, i + 1) ELSE i

\* new Function(code) does not throw: code is a function body.  With no line break and
\* no semicolon in it, that is any number of blocks and then at most one expression
\* statement, an identifier or a call, which has to end the text.
Parses(code) ==
    LET i == SkipBlocks(code, 1)
    IN  \/ i > Len(code)
        \/ IsWord(code[i]) /\ i = Len(code)
        \/ IsOpen(code[i]) /\ ParseCall(code, i) = Len(code) + 1

MarkerMessage == "Model must contain a cube() or view() function"

\* variant: the syntax check runs before the marker check
ValidateSyntaxFirst(code) ==
    IF ~Parses(code) THEN [success |-> FALSE, message |-> "SyntaxError"]
    ELSE IF ~HasMarker(code) THEN [success |-> FALSE, message |-> MarkerMessage]
    ELSE [success |-> TRUE, message |-> "Model is valid"]

\* the try block of app.post('/api/validate') and its catch: the marker test throws
\* first, new Function(code) throws a SyntaxError next
Validate(code) ==
    IF ~HasMarker(code) THEN [success |-> FALSE, message |-> MarkerMessage]
    ELSE IF ~Parses(code) THEN [success |-> FALSE, message |-> "SyntaxError"]
    ELSE [success |-> TRUE, message |-> "Model is valid"]

\* no POST /api/validate answered yet
NoResponse == [success |-> FALSE, message |-> "none"]

-----------------------------------------------------------------------------
(* scripts/scale-down.sh and scripts/scale-up.sh *)

MaxRuns == 3
MaxReplicas == 2

\* kubectl get deployments -n stcs: the deployments, in the order the loops take them
DeploymentOrder == <<"cube", "postgres-cube", "trino-coordinator">>

Deployments == {DeploymentOrder[i] : i \in DOMAIN DeploymentOrder}

\* declare -A DEFAULT_REPLICAS
DefaultReplicas == [d \in {"cube", "postgres-cube", "trino-coordinator"} |-> 1]

\* no file at scaling-backups/latest-replica-counts.txt
NoBackup == [exists |-> FALSE, counts |-> [d \in Deployments |-> 0]]

\* "${REPLICA_COUNTS[$deployment]:-1}"
TargetReplicas(counts, deployment) ==
    IF deployment \in DOMAIN counts THEN counts[deployment] ELSE 1

IdleScript ==
    [name |-> "none", pc |-> "idle", counts |-> [d \in Deployments |-> 0],
     next |-> 1, failed |-> FALSE, exit |-> 0]

\* exit, or set -e ending the script at a command that returned non-zero
Exit(s, code) == [s EXCEPT !.pc = "exited", !.exit = code]

\* no deployment scaled yet, no backup taken, no script at the terminal
ScaleIdle ==
    /\ replicas = [d \in Deployments |-> 1]
    /\ latestBackup = NoBackup
    /\ script = IdleScript
    /\ history = << >>
    /\ original = replicas

-----------------------------------------------------------------------------
(* Requests *)

\* kubectl apply has not opened the file yet
NotRead == [read |-> FALSE, data |-> << >>]

\* applyRead is no variable of the code: it is what the request's kubectl apply has
\* read from the file, where the moment of that read is told apart from its exit
IdleRequest ==
    [op |-> "none", modelName |-> << >>, code |-> EmptyText, pc |-> "idle",
     steps |-> << >>, isNew |-> FALSE, mountIndex |-> -1,
     log |-> << >>, errors |-> << >>, status |-> 0, message |-> "",
     wasAbsent |-> FALSE, applyRead |-> NotRead]

\* a slot takes a new request when no handler is suspended in it; a request takes the
\* first such slot
Free(i) ==
    /\ req[i].pc \in {"idle", "done"}
    /\ \A j \in Procs : j < i => req[j].pc \notin {"idle", "done"}

\* executeCommand(command): the command is spawned and the handler awaits its exit
Invoke(r, command, nextPc) == [r EXCEPT !.pc = nextPc, !.log = Append(@, command)]

\* .then(output => steps.push({step, output}))
PushStep(r, step) == [r EXCEPT !.steps = Append(@, step)]

\* res.json({success: true, ...})
RespondOk(r) == [r EXCEPT !.pc = "done", !.status = 200, !.message = "ok"]

\* exec's callback gets an error: console.error(`Error: ${error.message}`); reject(error).
\* The command awaited is the last one invoked.
Rejected(r) == [r EXCEPT !.errors = Append(@, r.log[Len(r.log)])]

\* variant: the catch block runs the rejected command again instead of responding
RespondErrorRetry(r) == [r EXCEPT !.log = Append(@, r.log[Len(r.log)])]

\* catch (error) { res.status(500).json({success: false, message: error.message}) }
RespondError(r) ==
    [r EXCEPT !.pc = "done", !.status = 500, !.message = r.errors[Len(r.errors)]]

\* the file the server starts from: one cube, already mounted in the deployment
InitialData == {<<[k |-> FileKey(NameX), v |-> CubeText]>>}

\* a second starting point: two cubes, both mounted
InitialDataTwoModels ==
    {<<[k |-> FileKey(NameX), v |-> CubeText], [k |-> FileKey(NameXJs), v |-> CubeText]>>}

\* the server started on the file `data`
ServerStart(data) ==
    /\ configMapFile = data
    /\ currentModels = loadExistingModels(<< >>, configMapFile)
    /\ appliedConfigMap = configMapFile
    /\ volumeMounts = [i \in DOMAIN currentModels |-> MountPath(currentModels[i].k)]
    /\ req = [i \in Procs |-> IdleRequest]
    /\ issued = 0
    /\ edits = 0

ServerInit == \E data \in InitialData : ServerStart(data)

ValidateIdle ==
    /\ validateCode = EmptyText
    /\ validateRes = NoResponse

\* no passthrough route called yet
IdlePassthrough == [route |-> "none", command |-> "none", pc |-> "idle", status |-> 0]

ProbeIdle == passthrough = IdlePassthrough

Init == ServerInit /\ ValidateIdle /\ ScaleIdle /\ ProbeIdle

-----------------------------------------------------------------------------
(* Synchronous handlers *)

\* variant: List() writes the map it has loaded back to the file
ListAndSave ==
    /\ currentModels' = loadExistingModels(currentModels, configMapFile)
    /\ configMapFile' = ConfigMapData(currentModels')
    /\ UNCHANGED <<req, appliedConfigMap, volumeMounts, issued, edits>>
    /\ UNCHANGED toolVars

\* app.get('/api/models'): loadExistingModels(); res.json({models: currentModels})
List ==
    /\ currentModels' = loadExistingModels(currentModels, configMapFile)
    /\ UNCHANGED <<req, configMapFile, appliedConfigMap, volumeMounts, issued, edits>>
    /\ UNCHANGED toolVars

\* app.get('/api/models/:name')
Get(modelName) ==
    /\ GetModel(currentModels, modelName).status \in {200, 404}
    /\ UNCHANGED vars

-----------------------------------------------------------------------------
(* app.post('/api/deploy') *)

\* variant: the file is written from the map as it was before this request's update
DeployStartStaleSnapshot(i, modelName, code) ==
    /\ Free(i)
    /\ issued < MaxRequests
    /\ issued' = issued + 1
    /\ currentModels' = SetKey(currentModels, modelName, code)
    /\ configMapFile' = DumpEntries(<< >>, currentModels, 1)
    /\ req' = [req EXCEPT ![i] =
                 [IdleRequest EXCEPT !.op = "deploy", !.modelName = modelName,
                                     !.code = code, !.pc = "apply", !.log = <<"apply">>,
                                     !.wasAbsent = ~HasKey(currentModels, modelName)]]
    /\ UNCHANGED <<appliedConfigMap, volumeMounts, edits>>
    /\ UNCHANGED toolVars

\* up to the first await: memory updated, file rewritten, kubectl apply spawned.
\* wasAbsent is no variable of the code: it records whether the name was tracked when
\* the request arrived, for the properties that compare with the state before it.
DeployStart(i, modelName, code) ==
    /\ Free(i)
    /\ issued < MaxRequests
    /\ issued' = issued + 1
    /\ currentModels' = SetKey(currentModels, modelName, code)
    /\ configMapFile' = ConfigMapData(currentModels')
    /\ req' = [req EXCEPT ![i] =
                 Invoke([IdleRequest EXCEPT !.op = "deploy", !.modelName = modelName,
                                            !.code = code,
                                            !.wasAbsent = ~HasKey(currentModels, modelName)],
                        "apply", "apply")]
    /\ UNCHANGED <<appliedConfigMap, volumeMounts, edits>>
    /\ UNCHANGED toolVars

\* kubectl apply -f CONFIGMAP_PATH: the command reads the file when it runs, not when
\* the handler wrote it; its effect on the cluster is taken at the moment it exits
DeployApplyDone(i) ==
    /\ req[i].op = "deploy"
    /\ req[i].pc = "apply"
    /\ appliedConfigMap' = configMapFile
    /\ req' = [req EXCEPT ![i] =
                 Invoke(PushStep(@, "apply"),
                        "restart", "restart")]
    /\ UNCHANGED <<currentModels, configMapFile, volumeMounts, issued, edits>>
    /\ UNCHANGED toolVars

DeployRestartDone(i) ==
    /\ req[i].op = "deploy"
    /\ req[i].pc = "restart"
    /\ req' = [req EXCEPT ![i] = Invoke(PushStep(@, "restart"), "getYaml", "check")]
    /\ UNCHANGED <<currentModels, configMapFile, appliedConfigMap, volumeMounts,
                   issued, edits>>
    /\ UNCHANGED toolVars

\* variant: the mount patch is issued whatever the check returned
DeployAfterCheckAlwaysMount(r, exists) ==
    [r EXCEPT !.isNew = ~exists, !.pc = "mount", !.log = Append(@, "patchAdd")]

\* variant: the mount patch is not awaited, the rollout wait is started along with it
DeployAfterCheckNoAwait(r, exists) ==
    IF ~exists
    THEN [r EXCEPT !.isNew = TRUE, !.pc = "status",
                   !.log = Append(Append(@, "patchAdd"), "status")]
    ELSE [r EXCEPT !.isNew = FALSE, !.pc = "status", !.log = Append(@, "status")]

\* const isNewModel = !await checkIfModelMountExists(modelName); `exists` is what the
\* helper returned: the includes() test, or false from its catch block
DeployAfterCheck(r, exists) ==
    IF ~exists
    THEN Invoke([r EXCEPT !.isNew = TRUE], "patchAdd", "mount")
    ELSE Invoke([r EXCEPT !.isNew = FALSE], "status", "status")

DeployCheckDone(i) ==
    /\ req[i].op = "deploy"
    /\ req[i].pc = "check"
    /\ req' = [req EXCEPT ![i] =
                 DeployAfterCheck(@, checkIfModelMountExists(volumeMounts, @.modelName))]
    /\ UNCHANGED <<currentModels, configMapFile, appliedConfigMap, volumeMounts,
                   issued, edits>>
    /\ UNCHANGED toolVars

\* checkIfModelMountExists: catch (error) { return false; }
DeployCheckFailed(i) ==
    /\ req[i].op = "deploy"
    /\ req[i].pc = "check"
    /\ req' = [req EXCEPT ![i] = DeployAfterCheck(Rejected(@), FALSE)]
    /\ UNCHANGED <<currentModels, configMapFile, appliedConfigMap, volumeMounts,
                   issued, edits>>
    /\ UNCHANGED toolVars

\* kubectl patch ... op add /volumeMounts/-: the cluster rejects a mountPath it has
DeployMountDone(i) ==
    /\ req[i].op = "deploy"
    /\ req[i].pc = "mount"
    /\ \A k \in DOMAIN volumeMounts : volumeMounts[k] # MountPath(req[i].modelName)
    /\ volumeMounts' = Append(volumeMounts, MountPath(req[i].modelName))
    /\ req' = [req EXCEPT ![i] = Invoke(PushStep(@, "mount"), "status", "status")]
    /\ UNCHANGED <<currentModels, configMapFile, appliedConfigMap, issued, edits>>
    /\ UNCHANGED toolVars

DeployStatusDone(i) ==
    /\ req[i].op = "deploy"
    /\ req[i].pc = "status"
    /\ req' = [req EXCEPT ![i] = RespondOk(PushStep(@, "status"))]
    /\ UNCHANGED <<currentModels, configMapFile, appliedConfigMap, volumeMounts,
                   issued, edits>>
    /\ UNCHANGED toolVars

-----------------------------------------------------------------------------
(* app.delete('/api/models/:name') *)

\* up to the first await: name deleted from memory, file rewritten, kubectl apply
\* spawned
DeleteStart(i, modelName) ==
    /\ Free(i)
    /\ issued < MaxRequests
    /\ issued' = issued + 1
    /\ currentModels' = DeleteKey(currentModels, modelName)
    /\ configMapFile' = ConfigMapData(currentModels')
    /\ req' = [req EXCEPT ![i] =
                 Invoke([IdleRequest EXCEPT !.op = "delete", !.modelName = modelName,
                                            !.wasAbsent = ~HasKey(currentModels, modelName)],
                        "apply", "apply")]
    /\ UNCHANGED <<appliedConfigMap, volumeMounts, edits>>
    /\ UNCHANGED toolVars

DeleteApplyDone(i) ==
    /\ req[i].op = "delete"
    /\ req[i].pc = "apply"
    /\ appliedConfigMap' = configMapFile
    /\ req' = [req EXCEPT ![i] = Invoke(@, "getYaml", "check")]
    /\ UNCHANGED <<currentModels, configMapFile, volumeMounts, issued, edits>>
    /\ UNCHANGED toolVars

\* const mountExists = await checkIfModelMountExists(modelName); if (mountExists) ...
DeleteAfterCheck(r, exists) ==
    IF exists THEN Invoke(r, "getJson", "getJson") ELSE Invoke(r, "restart", "restart")

DeleteCheckDone(i) ==
    /\ req[i].op = "delete"
    /\ req[i].pc = "check"
    /\ req' = [req EXCEPT ![i] =
                 DeleteAfterCheck(@, checkIfModelMountExists(volumeMounts, @.modelName))]
    /\ UNCHANGED <<currentModels, configMapFile, appliedConfigMap, volumeMounts,
                   issued, edits>>
    /\ UNCHANGED toolVars

\* checkIfModelMountExists: catch (error) { return false; }
DeleteCheckFailed(i) ==
    /\ req[i].op = "delete"
    /\ req[i].pc = "check"
    /\ req' = [req EXCEPT ![i] = DeleteAfterCheck(Rejected(@), FALSE)]
    /\ UNCHANGED <<currentModels, configMapFile, appliedConfigMap, volumeMounts,
                   issued, edits>>
    /\ UNCHANGED toolVars

\* variant: the removal patch is issued without the mountIndex !== -1 test
DeleteAfterGetJsonAlwaysPatch(r, index) ==
    [r EXCEPT !.mountIndex = index, !.pc = "unmount", !.log = Append(@, "patchRemove")]

\* kubectl get deployment -o json; findIndex; if (mountIndex !== -1) patch remove
DeleteAfterGetJson(r, index) ==
    IF index # -1
    THEN Invoke([r EXCEPT !.mountIndex = index], "patchRemove", "unmount")
    ELSE Invoke([r EXCEPT !.mountIndex = index], "restart", "restart")

DeleteGetJsonDone(i) ==
    /\ req[i].op = "delete"
    /\ req[i].pc = "getJson"
    /\ req' = [req EXCEPT ![i] =
                 DeleteAfterGetJson(@, FindIndex(volumeMounts, @.modelName))]
    /\ UNCHANGED <<currentModels, configMapFile, appliedConfigMap, volumeMounts,
                   issued, edits>>
    /\ UNCHANGED toolVars

\* variant: the removal patch looks the mount up again and removes it by its path
DeleteUnmountByPath(i) ==
    /\ req[i].op = "delete"
    /\ req[i].pc = "unmount"
    /\ FindIndex(volumeMounts, req[i].modelName) # -1
    /\ volumeMounts' = RemoveAt(volumeMounts, FindIndex(volumeMounts, req[i].modelName))
    /\ req' = [req EXCEPT ![i] = Invoke(@, "restart", "restart")]
    /\ UNCHANGED <<currentModels, configMapFile, appliedConfigMap, issued, edits>>
    /\ UNCHANGED toolVars

\* kubectl patch ... op remove /volumeMounts/<mountIndex>: an index past the end fails
DeleteUnmountDone(i) ==
    /\ req[i].op = "delete"
    /\ req[i].pc = "unmount"
    /\ req[i].mountIndex < Len(volumeMounts)
    /\ volumeMounts' = RemoveAt(volumeMounts, req[i].mountIndex)
    /\ req' = [req EXCEPT ![i] = Invoke(@, "restart", "restart")]
    /\ UNCHANGED <<currentModels, configMapFile, appliedConfigMap, issued, edits>>
    /\ UNCHANGED toolVars

DeleteRestartDone(i) ==
    /\ req[i].op = "delete"
    /\ req[i].pc = "restart"
    /\ req' = [req EXCEPT ![i] = RespondOk(@)]
    /\ UNCHANGED <<currentModels, configMapFile, appliedConfigMap, volumeMounts,
                   issued, edits>>
    /\ UNCHANGED toolVars

-----------------------------------------------------------------------------
(* executeCommand rejecting *)

\* the commands whose rejection reaches the handler's catch block; the getYaml query
\* of checkIfModelMountExists is awaited inside that helper's own try/catch
Awaited == {"apply", "restart", "mount", "status", "getJson", "unmount"}

\* variant: the catch block undoes the update of memory and file before responding
CommandFailedUndo(i) ==
    /\ req[i].pc \in {"apply", "restart", "mount", "status", "getJson", "unmount"}
    /\ req' = [req EXCEPT ![i] =
                 [@ EXCEPT !.pc = "done", !.status = 500,
                           !.errors = Append(@, req[i].log[Len(req[i].log)]),
                           !.message = req[i].log[Len(req[i].log)]]]
    /\ currentModels' = DeleteKey(currentModels, req[i].modelName)
    /\ configMapFile' = DumpEntries(<< >>, currentModels', 1)
    /\ UNCHANGED <<appliedConfigMap, volumeMounts, issued, edits>>
    /\ UNCHANGED toolVars

\* variant: the catch block logs the error and sends no response
CommandFailedNoResponse(i) ==
    /\ req[i].pc \in {"apply", "restart", "mount", "status", "getJson", "unmount"}
    /\ req' = [req EXCEPT ![i] = [Rejected(@) EXCEPT !.pc = "caught"]]
    /\ UNCHANGED <<currentModels, configMapFile, appliedConfigMap, volumeMounts,
                   issued, edits>>
    /\ UNCHANGED toolVars

\* a command exits with an error (non-zero exit, timeout) and the handler's catch block
\* responds; the command has changed nothing in the cluster
CommandFailed(i) ==
    /\ req[i].pc \in Awaited
    /\ req' = [req EXCEPT ![i] = RespondError(Rejected(@))]
    /\ UNCHANGED <<currentModels, configMapFile, appliedConfigMap, volumeMounts,
                   issued, edits>>
    /\ UNCHANGED toolVars

-----------------------------------------------------------------------------
(* The file edited by another process *)

\* what the other process writes
OutOfBandNames == {NameX}
OutOfBandTexts == {<<"view(", "cubes:", ")">>}

OutOfBandSet(modelName, text) ==
    /\ edits < MaxEdits
    /\ edits' = edits + 1
    /\ configMapFile' = SetKey(configMapFile, FileKey(modelName), text)
    /\ configMapFile' # configMapFile
    /\ UNCHANGED <<req, currentModels, appliedConfigMap, volumeMounts, issued>>
    /\ UNCHANGED toolVars

OutOfBandRemove(modelName) ==
    /\ edits < MaxEdits
    /\ edits' = edits + 1
    /\ HasKey(configMapFile, FileKey(modelName))
    /\ configMapFile' = DeleteKey(configMapFile, FileKey(modelName))
    /\ UNCHANGED <<req, currentModels, appliedConfigMap, volumeMounts, issued>>
    /\ UNCHANGED toolVars

-----------------------------------------------------------------------------

Next ==
    \/ List
    \/ \E n \in Names : Get(n)
    \/ \E i \in Procs, n \in Names, t \in Texts : DeployStart(i, n, t)
    \/ \E i \in Procs : DeployApplyDone(i)
    \/ \E i \in Procs : DeployRestartDone(i)
    \/ \E i \in Procs : DeployCheckDone(i)
    \/ \E i \in Procs : DeployCheckFailed(i)
    \/ \E i \in Procs : DeployMountDone(i)
    \/ \E i \in Procs : DeployStatusDone(i)
    \/ \E i \in Procs, n \in Names : DeleteStart(i, n)
    \/ \E i \in Procs : DeleteApplyDone(i)
    \/ \E i \in Procs : DeleteCheckDone(i)
    \/ \E i \in Procs : DeleteCheckFailed(i)
    \/ \E i \in Procs : DeleteGetJsonDone(i)
    \/ \E i \in Procs : DeleteUnmountDone(i)
    \/ \E i \in Procs : DeleteRestartDone(i)
    \/ \E i \in Procs : CommandFailed(i)
    \/ \E n \in OutOfBandNames, t \in OutOfBandTexts : OutOfBandSet(n, t)
    \/ \E n \in OutOfBandNames : OutOfBandRemove(n)

Spec == Init /\ [][Next]_vars

\* the same server started on a file of two models
InitTwoModels ==
    /\ \E data \in InitialDataTwoModels : ServerStart(data)
    /\ ValidateIdle
    /\ ScaleIdle
    /\ ProbeIdle

SpecTwoModels == InitTwoModels /\ [][Next]_vars

-----------------------------------------------------------------------------
(* kubectl apply in two moments: it reads the file, later the cluster takes the update *)

\* kubectl apply -f CONFIGMAP_PATH opens the file, some time after it was spawned
ApplyReadsFile(i) ==
    /\ req[i].pc = "apply"
    /\ ~req[i].applyRead.read
    /\ req' = [req EXCEPT ![i].applyRead = [read |-> TRUE, data |-> configMapFile]]
    /\ UNCHANGED <<currentModels, configMapFile, appliedConfigMap, volumeMounts,
                   issued, edits>>
    /\ UNCHANGED toolVars

\* the cluster takes what the command read and the command exits: Deploy goes on
DeployApplySent(i) ==
    /\ req[i].op = "deploy"
    /\ req[i].pc = "apply"
    /\ req[i].applyRead.read
    /\ appliedConfigMap' = req[i].applyRead.data
    /\ req' = [req EXCEPT ![i] = Invoke(PushStep(@, "apply"), "restart", "restart")]
    /\ UNCHANGED <<currentModels, configMapFile, volumeMounts, issued, edits>>
    /\ UNCHANGED toolVars

\* the same for Delete, which pushes no step
DeleteApplySent(i) ==
    /\ req[i].op = "delete"
    /\ req[i].pc = "apply"
    /\ req[i].applyRead.read
    /\ appliedConfigMap' = req[i].applyRead.data
    /\ req' = [req EXCEPT ![i] = Invoke(@, "getYaml", "check")]
    /\ UNCHANGED <<currentModels, configMapFile, volumeMounts, issued, edits>>
    /\ UNCHANGED toolVars

\* Deploy and Delete requests alone, kubectl apply taken in its two moments
NextApplyRace ==
    \/ \E i \in Procs, n \in Names, t \in Texts : DeployStart(i, n, t)
    \/ \E i \in Procs : ApplyReadsFile(i)
    \/ \E i \in Procs : DeployApplySent(i)
    \/ \E i \in Procs : DeployRestartDone(i)
    \/ \E i \in Procs : DeployCheckDone(i)
    \/ \E i \in Procs : DeployCheckFailed(i)
    \/ \E i \in Procs : DeployMountDone(i)
    \/ \E i \in Procs : DeployStatusDone(i)
    \/ \E i \in Procs, n \in Names : DeleteStart(i, n)
    \/ \E i \in Procs : DeleteApplySent(i)
    \/ \E i \in Procs : DeleteCheckDone(i)
    \/ \E i \in Procs : DeleteCheckFailed(i)
    \/ \E i \in Procs : DeleteGetJsonDone(i)
    \/ \E i \in Procs : DeleteUnmountDone(i)
    \/ \E i \in Procs : DeleteRestartDone(i)
    \/ \E i \in Procs : CommandFailed(i)

SpecApplyRace == Init /\ [][NextApplyRace]_vars

\* the command awaited by the handler in slot i exits, with or without an error
CommandExits(i) ==
    \/ DeployApplyDone(i) \/ DeployRestartDone(i) \/ DeployCheckDone(i)
    \/ DeployCheckFailed(i) \/ DeployMountDone(i) \/ DeployStatusDone(i)
    \/ DeleteApplyDone(i) \/ DeleteCheckDone(i) \/ DeleteCheckFailed(i)
    \/ DeleteGetJsonDone(i) \/ DeleteUnmountDone(i) \/ DeleteRestartDone(i)
    \/ CommandFailed(i)

\* the server under the condition that every command it spawns exits in the end
SpecCommandsExit ==
    Init /\ [][Next]_vars /\ \A i \in Procs : WF_vars(CommandExits(i))

-----------------------------------------------------------------------------
(* POST /api/validate taken alone: the route reads nothing but its request *)

ValidatePost(code) ==
    /\ validateCode' = code
    /\ validateRes' = Validate(code)
    /\ UNCHANGED <<serverVars, scaleVars, probeVars>>

NextValidate == \E code \in ValidateTexts : ValidatePost(code)

SpecValidate == Init /\ [][NextValidate]_vars

-----------------------------------------------------------------------------
(* The routes that change nothing on disk or in the cluster *)

\* the command each passthrough route hands to executeCommand
PassthroughCommand ==
    [status |-> "getJson", logs |-> "logs", sql |-> "psql"]

PassthroughRoutes == {"status", "logs", "sql"}

\* app.get('/api/cluster/status' | '/api/cluster/logs' | '/api/test/sql') up to its await
PassthroughStart(route) ==
    /\ passthrough.pc \in {"idle", "done"}
    /\ passthrough' = [route |-> route, command |-> PassthroughCommand[route],
                       pc |-> "awaiting", status |-> 0]
    /\ UNCHANGED <<serverVars, validateVars, scaleVars>>

\* the command exits: res.json({success: true, ...})
PassthroughDone ==
    /\ passthrough.pc = "awaiting"
    /\ passthrough' = [passthrough EXCEPT !.pc = "done", !.status = 200]
    /\ UNCHANGED <<serverVars, validateVars, scaleVars>>

\* the command exits with an error: catch (error) { res.status(500).json(...) }
PassthroughFailed ==
    /\ passthrough.pc = "awaiting"
    /\ passthrough' = [passthrough EXCEPT !.pc = "done", !.status = 500]
    /\ UNCHANGED <<serverVars, validateVars, scaleVars>>

\* the routes that are no Deploy and no Delete, with the file edited by another process
NextReadOnly ==
    \/ List
    \/ \E n \in Names : Get(n)
    \/ \E code \in ValidateTexts : ValidatePost(code)
    \/ \E route \in PassthroughRoutes : PassthroughStart(route)
    \/ PassthroughDone
    \/ PassthroughFailed
    \/ \E n \in OutOfBandNames, t \in OutOfBandTexts : OutOfBandSet(n, t)
    \/ \E n \in OutOfBandNames : OutOfBandRemove(n)

SpecReadOnly == Init /\ [][NextReadOnly]_vars

-----------------------------------------------------------------------------
(* The two scale scripts run from one terminal, one after the other *)

\* the terminal is free for the next run
ScriptFree == script.pc \in {"idle", "exited"} /\ Len(history) < MaxRuns

\* scale-down.sh main: the reply to the prompt is not y
ScaleDownCancelled ==
    /\ ScriptFree
    /\ script' = Exit([IdleScript EXCEPT !.name = "down"], 0)
    /\ history' = Append(history, "downCancelled")
    /\ UNCHANGED <<replicas, latestBackup, original, serverVars, validateVars, probeVars>>

\* scale-down.sh main: reply y, then backup_replica_counts writes the replica counts
\* of the moment to a new file and points latest-replica-counts.txt at it
ScaleDownConfirmed ==
    /\ ScriptFree
    /\ latestBackup' = [exists |-> TRUE, counts |-> replicas]
    /\ script' = [IdleScript EXCEPT !.name = "down", !.pc = "scaling"]
    /\ UNCHANGED <<replicas, history, original, serverVars, validateVars, probeVars>>

\* scale_down_deployments: kubectl scale deployment "$deployment" --replicas=0
ScaleDownOne ==
    /\ script.name = "down" /\ script.pc = "scaling"
    /\ script.next <= Len(DeploymentOrder)
    /\ replicas' = [replicas EXCEPT ![DeploymentOrder[script.next]] = 0]
    /\ script' = [script EXCEPT !.next = @ + 1]
    /\ UNCHANGED <<latestBackup, history, original, serverVars, validateVars, probeVars>>

\* scale_down_deployments: kubectl scale returns non-zero; under set -e the script ends
\* there, before it tests $?
ScaleDownOneFailed ==
    /\ script.name = "down" /\ script.pc = "scaling"
    /\ script.next <= Len(DeploymentOrder)
    /\ script' = Exit(script, 1)
    /\ history' = Append(history, "downFailed")
    /\ UNCHANGED <<replicas, latestBackup, original, serverVars, validateVars, probeVars>>

\* scale-down.sh main after the loop: wait_for_termination returns 0, or 1 on its
\* timeout, which ends the script under set -e
ScaleDownFinish ==
    /\ script.name = "down" /\ script.pc = "scaling"
    /\ script.next > Len(DeploymentOrder)
    /\ \E code \in {0, 1} : script' = Exit(script, code)
    /\ history' = Append(history, "down")
    /\ UNCHANGED <<replicas, latestBackup, original, serverVars, validateVars, probeVars>>

\* scale-up.sh main up to the prompt: load_replica_counts reads the backup and returns
\* 0, or fills in the defaults and returns 1; main calls it as a plain command, so
\* under set -e the return of 1 ends the script
ScaleUpStart ==
    /\ ScriptFree
    /\ IF latestBackup.exists
       THEN /\ script' = [IdleScript EXCEPT !.name = "up", !.pc = "prompt",
                                             !.counts = latestBackup.counts]
            /\ UNCHANGED history
       ELSE /\ script' = Exit([IdleScript EXCEPT !.name = "up",
                                                  !.counts = DefaultReplicas], 1)
            /\ history' = Append(history, "upNoBackup")
    /\ UNCHANGED <<replicas, latestBackup, original, serverVars, validateVars, probeVars>>

\* scale-up.sh main: the reply to the prompt is not y
ScaleUpCancelled ==
    /\ script.name = "up" /\ script.pc = "prompt"
    /\ script' = Exit(script, 0)
    /\ history' = Append(history, "upCancelled")
    /\ UNCHANGED <<replicas, latestBackup, original, serverVars, validateVars, probeVars>>

\* scale-up.sh main: reply y
ScaleUpConfirmed ==
    /\ script.name = "up" /\ script.pc = "prompt"
    /\ script' = [script EXCEPT !.pc = "scaling"]
    /\ UNCHANGED <<replicas, latestBackup, history, original, serverVars, validateVars, probeVars>>

\* scale_up_deployments: kubectl scale deployment "$deployment" --replicas="$target_replicas"
ScaleUpOne ==
    /\ script.name = "up" /\ script.pc = "scaling"
    /\ script.next <= Len(DeploymentOrder)
    /\ replicas' = [replicas EXCEPT ![DeploymentOrder[script.next]] =
                       TargetReplicas(script.counts, DeploymentOrder[script.next])]
    /\ script' = [script EXCEPT !.next = @ + 1]
    /\ UNCHANGED <<latestBackup, history, original, serverVars, validateVars, probeVars>>

\* scale_up_deployments: kubectl scale returns non-zero inside the if; the deployment
\* is added to failed_deployments and the loop goes on
ScaleUpOneFailed ==
    /\ script.name = "up" /\ script.pc = "scaling"
    /\ script.next <= Len(DeploymentOrder)
    /\ script' = [script EXCEPT !.next = @ + 1, !.failed = TRUE]
    /\ UNCHANGED <<replicas, latestBackup, history, original, serverVars, validateVars, probeVars>>

\* scale-up.sh main after the loop: exit 1 when a deployment failed to scale;
\* otherwise wait_for_ready returns 0, or 1 on its timeout, which ends the script
\* under set -e
ScaleUpFinish ==
    /\ script.name = "up" /\ script.pc = "scaling"
    /\ script.next > Len(DeploymentOrder)
    /\ IF script.failed
       THEN /\ script' = Exit(script, 1)
            /\ history' = Append(history, "upFailed")
       ELSE /\ \E code \in {0, 1} : script' = Exit(script, code)
            /\ history' = Append(history, "up")
    /\ UNCHANGED <<replicas, latestBackup, original, serverVars, validateVars, probeVars>>

\* the cluster the scripts are first run on
InitScale ==
    /\ ServerInit
    /\ ValidateIdle
    /\ ProbeIdle
    /\ replicas \in [Deployments -> 1..MaxReplicas]
    /\ latestBackup = NoBackup
    /\ script = IdleScript
    /\ history = << >>
    /\ original = replicas

NextScale ==
    \/ ScaleDownCancelled
    \/ ScaleDownConfirmed
    \/ ScaleDownOne
    \/ ScaleDownOneFailed
    \/ ScaleDownFinish
    \/ ScaleUpStart
    \/ ScaleUpCancelled
    \/ ScaleUpConfirmed
    \/ ScaleUpOne
    \/ ScaleUpOneFailed
    \/ ScaleUpFinish

SpecScale == InitScale /\ [][NextScale]_vars

-----------------------------------------------------------------------------
(* Vocabulary of the properties *)

\* slot i takes a request in this step (the handler runs up to its first await)
Received(i) == req'[i] # req[i] /\ req'[i].pc = "apply"

\* the handler in slot i runs in this step
Stepped(i) == req'[i] # req[i]

\* a command awaited by slot i exits with an error in this step
Failed(i) == Len(req'[i].errors) > Len(req[i].errors)

Last(seq) == seq[Len(seq)]

\* what List() would answer, as a set of <<name, text>> pairs
Pairs(obj) == {<<obj[i].k, obj[i].v>> : i \in DOMAIN obj}

\* the file's data map read as name -> text: each key without its '.js' ending
DocumentPairs(data) ==
    {<<SubSeq(data[i].k, 1, Len(data[i].k) - Len(JS)), data[i].v>> : i \in DOMAIN data}

\* keys of the file = { n + '.js' : n tracked }, same texts, same count, no key twice
DocMirrorsMemory ==
    /\ Len(configMapFile) = Len(currentModels)
    /\ \A a, b \in DOMAIN configMapFile :
          configMapFile[a].k = configMapFile[b].k => a = b
    /\ KeysOf(configMapFile) = {FileKey(n) : n \in KeysOf(currentModels)}
    /\ \A n \in KeysOf(currentModels) :
          ValueOf(configMapFile, FileKey(n)) = ValueOf(currentModels, n)

-----------------------------------------------------------------------------
(* C1..C10 *)

\* C1: once Deploy(n, t) has updated memory and rewritten the file, Get(n) answers
\* 200 with exactly t, straight away and also after a List() reload, for every text t
\* including the empty one.
C1_DeployThenGet ==
    [][\A i \in Procs :
          (Received(i) /\ req'[i].op = "deploy") =>
             LET n == req'[i].modelName
                 t == req'[i].code
             IN  /\ GetModel(currentModels', n) = [status |-> 200, model |-> t]
                 /\ GetModel(loadExistingModels(currentModels', configMapFile'), n)
                       = [status |-> 200, model |-> t]]_vars

\* C2: the step in which a Deploy or Delete is received leaves the file mirroring the
\* in-memory map, and no later step of any request handler breaks the mirror.
C2_DocumentMirrorsModelSet ==
    [][/\ (\E i \in Procs : Received(i)) => DocMirrorsMemory'
       /\ (DocMirrorsMemory /\ \E i \in Procs : Stepped(i)) => DocMirrorsMemory']_vars

\* C2 witness: a Deploy and a Delete are both in flight, interleaved, two names are
\* tracked and the file mirrors them.
C2_Witness ==
    /\ \E i, j \in Procs :
          /\ req[i].op = "deploy" /\ req[i].pc \notin {"idle", "done"}
          /\ req[j].op = "delete" /\ req[j].pc \notin {"idle", "done"}
    /\ Len(currentModels) = 2
    /\ DocMirrorsMemory

\* C3: in every state List() answers exactly the mapping the file holds: nothing the
\* file lacks, and every entry of the file with the file's text.  Stated for the
\* states in which no tracked name and no key of the file has '.js' inside the name.
C3_ListReturnsDocument ==
    (/\ \A n \in KeysOf(currentModels) : ~Includes(n, JS)
     /\ \A n \in KeysOf(configMapFile) : KeyToModelName(n) \o JS = n)
    => Pairs(loadExistingModels(currentModels, configMapFile))
          = DocumentPairs(configMapFile)

\* C4: right after Delete(n) has removed n and rewritten the file, List() answers a
\* mapping without n.
C4_DeleteThenList ==
    [][\A i \in Procs :
          (Received(i) /\ req'[i].op = "delete") =>
             ~HasKey(loadExistingModels(currentModels', configMapFile'),
                     req'[i].modelName)]_vars


C6_StepsOfSuccessfulDeploy ==
    \A i \in Procs :
       (req[i].op = "deploy" /\ req[i].pc = "done" /\ req[i].status = 200) =>
          req[i].steps = IF req[i].isNew
                         THEN <<"apply", "restart", "mount", "status">>
                         ELSE <<"apply", "restart", "status">>

\* C6 witness: two Deploys have answered success, one with the mount step and one
\* without it.
C6_Witness ==
    \E i, j \in Procs :
       /\ req[i].op = "deploy" /\ req[i].status = 200 /\ req[i].isNew
       /\ req[i].steps = <<"apply", "restart", "mount", "status">>
       /\ req[i].errors = << >>
       /\ req[j].op = "deploy" /\ req[j].status = 200 /\ ~req[j].isNew
       /\ req[j].steps = <<"apply", "restart", "status">>


C8_DeployAllOrNothing ==
    \A i \in Procs :
       (/\ req[i].op = "deploy" /\ req[i].pc = "done" /\ req[i].status = 500
        /\ req[i].wasAbsent
        /\ issued = 1 /\ edits = 0)
       => /\ ~HasKey(currentModels, req[i].modelName)
          /\ ~HasKey(configMapFile, FileKey(req[i].modelName))
          /\ ~HasKey(appliedConfigMap, FileKey(req[i].modelName))

NoRepeat(seq) == \A a, b \in DOMAIN seq : seq[a] = seq[b] => a = b

InSeq(x, seq) == \E a \in DOMAIN seq : seq[a] = x

C10_DeployValidatesFirst ==
    [][\A i \in Procs :
          (Stepped(i) /\ req'[i].op = "deploy" /\ ~HasMarker(req'[i].code)) =>
             /\ UNCHANGED <<currentModels, configMapFile, appliedConfigMap>>
             /\ req'[i].log = << >>]_vars

-----------------------------------------------------------------------------
(* C11..C20 *)

\* the order in which a handler invokes its commands, longest case
DeployOrder == <<"apply", "restart", "getYaml", "patchAdd", "status">>
DeleteOrder == <<"apply", "getYaml", "getJson", "patchRemove", "restart">>

\* seq is sub in order: seq's commands appear in full, in the same relative order
RECURSIVE InOrder(_, _)
InOrder(seq, full) ==
    IF seq = << >> THEN TRUE
    ELSE IF full = << >> THEN FALSE
    ELSE IF Head(seq) = Head(full) THEN InOrder(Tail(seq), Tail(full))
    ELSE InOrder(seq, Tail(full))

\* the pc at which a handler is suspended on a command
PcOf(command) ==
    CASE command = "getYaml" -> "check"
      [] command = "patchAdd" -> "mount"
      [] command = "patchRemove" -> "unmount"
      [] OTHER -> command

C12_GetFindsEveryStoredName ==
    \A n \in Names :
       /\ GetModel(currentModels, n).status = 404 <=> ~HasKey(currentModels, n)
       /\ HasKey(currentModels, n) =>
             GetModel(currentModels, n) = [status |-> 200, model |-> ValueOf(currentModels, n)]

\* a text holds one of the two markers / one of the two structural markers
HoldsMarker(code) == \E i \in DOMAIN code : code[i] \in {"cube(", "view("}

HoldsStructure(code) == \E i \in DOMAIN code : code[i] \in {"sql:", "cubes:"}

\* C13: a POST /api/validate whose text holds neither cube( nor view( is answered with
\* success false and the message that names the missing cube()/view() function,
\* whatever else the text holds and whether or not it parses.
C13_NoMarkerFails ==
    (validateRes # NoResponse /\ ~HoldsMarker(validateCode)) =>
       validateRes = [success |-> FALSE, message |-> MarkerMessage]

\* C13 witness: a text of three identifiers, which holds no marker and does not parse
\* either, was answered with the marker message.
C13_Witness ==
    /\ validateCode = <<"a", "a", "a">>
    /\ validateRes = [success |-> FALSE, message |-> MarkerMessage]

\* C14 as claimed: a text that holds a marker and a structural marker is answered with
\* success, whether or not it parses.
C14_MarkerAndStructureSucceed ==
    (validateRes # NoResponse /\ HoldsMarker(validateCode)
                              /\ HoldsStructure(validateCode)) =>
       validateRes.success

\* C14 as amended: a text that holds a marker and a structural marker is answered with
\* success exactly when new Function accepts it; when new Function throws, the answer
\* is success false with the syntax error's message.  A text that holds a marker and
\* does not parse is never answered with success.
C14_MarkerAndParseSucceed ==
    /\ (validateRes # NoResponse /\ HoldsMarker(validateCode)
                                  /\ HoldsStructure(validateCode)) =>
          /\ validateRes.success <=> Parses(validateCode)
          /\ validateRes.success => validateRes.message = "Model is valid"
          /\ ~validateRes.success => validateRes.message = "SyntaxError"
    /\ (validateRes # NoResponse /\ HoldsMarker(validateCode)
                                  /\ ~Parses(validateCode)) =>
          ~validateRes.success

\* C14 witness: a view over cubes, a text that holds a marker and a structural marker
\* and parses, was answered with success.
C14_Witness ==
    /\ validateCode = <<"view(", "cubes:", ")">>
    /\ validateRes = [success |-> TRUE, message |-> "Model is valid"]

\* the runs so far are one or more confirmed scale-downs and then one confirmed
\* scale-up, every kubectl scale of them having succeeded
DownsThenUp ==
    /\ Len(history) >= 2
    /\ history[Len(history)] = "up"
    /\ \A k \in 1..(Len(history) - 1) : history[k] = "down"
    /\ script.pc = "exited"

\* C15: once one or more confirmed scale-down runs and then one confirmed scale-up run
\* have ended, with every kubectl scale succeeding, every deployment has the replica
\* count it had before the first scale-down.
C15_ScaleUpRestoresOriginal ==
    DownsThenUp => replicas = original

\* C16: a scale-up.sh started when there is no latest-replica-counts.txt takes the
\* default replica counts and stops at the confirmation prompt, and a confirmed one
\* scales every deployment to its default count.
C16_ScaleUpWithoutBackup ==
    [][(ScriptFree /\ ~latestBackup.exists /\ script'.name = "up"
                   /\ script' # script) =>
          /\ script'.counts = DefaultReplicas
          /\ script'.pc = "prompt"]_vars

\* C17 as claimed: committing to the in-memory map and persisting it are separate
\* steps of a request, so that a step of another request can fall between them: the
\* step in which a request commits leaves the file as it is.
C17_CommitAndPersistApart ==
    [][\A i \in Procs : Received(i) => configMapFile' = configMapFile]_vars

\* C17 as amended: commit and persist are one step.  The step that receives a Deploy
\* or Delete of n writes a file that holds every entry the in-memory map held before
\* the step for a name other than n, together with n's new entry (Deploy) or without
\* n (Delete), and nothing else; no later step of a request changes the map or the
\* file.  No request serializes a snapshot older than the map.
C17_CommitAndPersistTogether ==
    [][\A i \in Procs :
          /\ Received(i) =>
                LET n == req'[i].modelName
                    kept == {e \in Pairs(currentModels) : e[1] # n}
                    own == IF req'[i].op = "deploy" THEN {<<n, req'[i].code>>} ELSE {}
                IN  /\ DocumentPairs(configMapFile') = kept \cup own
                    /\ Pairs(currentModels') = kept \cup own
                    /\ Len(configMapFile') = Cardinality(kept \cup own)
          /\ (Stepped(i) /\ ~Received(i)) =>
                UNCHANGED <<currentModels, configMapFile>>]_vars

\* C17 witness: two Deploys of different new names raced (the second was received
\* while the first was in flight: the first had not yet applied when the second
\* wrote the file), both have answered success, and the file holds both entries.
C17_Witness ==
    \E i, j \in Procs :
       /\ i # j
       /\ req[i].op = "deploy" /\ req[i].status = 200 /\ req[i].wasAbsent
       /\ req[j].op = "deploy" /\ req[j].status = 200 /\ req[j].wasAbsent
       /\ req[i].modelName # req[j].modelName
       /\ <<req[i].modelName, req[i].code>> \in DocumentPairs(configMapFile)
       /\ <<req[j].modelName, req[j].code>> \in DocumentPairs(configMapFile)
       /\ Len(configMapFile) = 3

\* C18: Delete(n) looks the index of n's mount up in one command and removes by that
\* index in a later one.  The lookup stores the 0-based position of the mount whose
\* path is n's at that moment; the removal patch, whenever it succeeds, removes the
\* entry that stands at the stored position at patch time, whatever its path is then,
\* and leaves the order of the others; nothing but the two patches changes the list.
C18_RemovalByStoredIndex ==
    [][\A i \in Procs :
          /\ (req[i].pc = "getJson" /\ Stepped(i) /\ ~Failed(i)) =>
                /\ req'[i].mountIndex # -1 =>
                      /\ volumeMounts[req'[i].mountIndex + 1] = MountPath(req[i].modelName)
                      /\ req'[i].pc = "unmount"
                /\ req'[i].mountIndex = -1 =>
                      \A k \in DOMAIN volumeMounts :
                         volumeMounts[k] # MountPath(req[i].modelName)
          /\ (req[i].pc = "unmount" /\ Stepped(i) /\ ~Failed(i)) =>
                /\ req[i].mountIndex + 1 \in DOMAIN volumeMounts
                /\ Len(volumeMounts') = Len(volumeMounts) - 1
                /\ \A k \in DOMAIN volumeMounts' :
                      volumeMounts'[k] = IF k <= req[i].mountIndex
                                         THEN volumeMounts[k] ELSE volumeMounts[k + 1]
          /\ (Stepped(i) /\ volumeMounts' # volumeMounts) =>
                req[i].pc \in {"mount", "unmount"}]_vars

\* C18 witness: two Deletes of the same name both looked up the index while the mount
\* was there and both patched with success; the second patch removed what had moved
\* to that index, the mount of a model that is still tracked and that no request
\* named.
C18_Witness ==
    \E i, j \in Procs :
       /\ i # j
       /\ req[i].op = "delete" /\ req[j].op = "delete"
       /\ req[i].modelName = req[j].modelName
       /\ req[i].errors = << >> /\ req[j].errors = << >>
       /\ InSeq("patchRemove", req[i].log) /\ req[i].pc \in {"restart", "done"}
       /\ InSeq("patchRemove", req[j].log) /\ req[j].pc \in {"restart", "done"}
       /\ \E m \in KeysOf(currentModels) :
             /\ m # req[i].modelName
             /\ \A k \in DOMAIN volumeMounts : volumeMounts[k] # MountPath(m)

\* C19: Deploy issues the mount-add patch only for a name whose mount is not in the
\* deployment at the moment the patch is issued, whether the check query answered
\* or failed.
C19_NoPatchForRegisteredMount ==
    [][\A i \in Procs :
          (Stepped(i) /\ req[i].pc = "check" /\ req'[i].pc = "mount") =>
             \A k \in DOMAIN volumeMounts :
                volumeMounts[k] # MountPath(req[i].modelName)]_vars

\* C20: a key that another process wrote into the file and that the server does not
\* track is still in the file once the server has received a Deploy or a Delete of
\* another name.
C20_UntrackedEntrySurvives ==
    [][\A i \in Procs :
          Received(i) =>
             \A n \in Names :
                (/\ edits > 0
                 /\ n # req'[i].modelName
                 /\ HasKey(configMapFile, FileKey(n))
                 /\ ~HasKey(currentModels, n))
                => HasKey(configMapFile', FileKey(n))]_vars

-----------------------------------------------------------------------------
(* C21..C30 *)

\* C21: a Deploy whose rollout wait failed after all its earlier commands succeeded is
\* not answered with an error: it ends with a success response, which carries the
\* steps executed.
C21_RolloutFailureNonFatal ==
    \A i \in Procs :
       (req[i].op = "deploy" /\ req[i].pc = "done" /\ req[i].errors = <<"status">>) =>
          req[i].status = 200

\* a step of List(): no request is received or resumed and the file is not written
ListStep == req' = req /\ configMapFile' = configMapFile /\ currentModels' # currentModels

validateModel(code) ==
    IF ~HasMarker(code) THEN [success |-> FALSE, message |-> MarkerMessage]
    ELSE IF ~(Includes(code, <<"sql:">>) \/ Includes(code, <<"cubes:">>))
         THEN [success |-> FALSE,
               message |-> "Model must contain SQL definition or cube references"]
    ELSE IF ~Parses(code) THEN [success |-> FALSE, message |-> "SyntaxError"]
    ELSE [success |-> TRUE, message |-> "Model is valid"]

\* C23: a POST /api/validate whose text holds a marker and neither sql: nor cubes: is
\* answered with failure, and every text is accepted by the server exactly when the
\* editor's validateModel accepts it.
C23_ServerAndEditorAgree ==
    validateRes # NoResponse =>
       /\ (HoldsMarker(validateCode) /\ ~HoldsStructure(validateCode)) =>
             ~validateRes.success
       /\ validateRes.success <=> validateModel(validateCode).success

\* C24: a Deploy of a name that was absent from the in-memory map when it arrived
\* goes on to the mount step once its mount check has answered.  Stated here for the
\* case in which the deployment holds no mount with the name's path at that moment,
\* so that a mount left behind by a Delete that failed part-way plays no part.
C24_NewNameIsMounted ==
    [][\A i \in Procs :
          (/\ req[i].op = "deploy" /\ req[i].pc = "check"
           /\ Stepped(i) /\ ~Failed(i)
           /\ req[i].wasAbsent
           /\ \A k \in DOMAIN volumeMounts :
                 volumeMounts[k] # MountPath(req[i].modelName))
          => req'[i].pc = "mount"]_vars

\* no mount of the deployment has the path of modelName
NoMountOf(modelName) ==
    \A k \in DOMAIN volumeMounts : volumeMounts[k] # MountPath(modelName)

\* C25: in a Delete(n) the index lookup is made only after the mount check answered
\* "registered", and the removal patch is issued only out of a lookup that found a
\* mount with n's path, for the index of that mount; a check or a lookup made while no
\* mount has n's path is followed by no removal patch; and a patch that succeeds
\* while the mount at its index is still n's removes that entry alone and leaves the
\* others in place and in order.
C25_RemovalOnlyOfRegisteredMount ==
    [][\A i \in Procs :
          (req[i].op = "delete" /\ Stepped(i)) =>
             /\ (req[i].pc = "check" /\ req'[i].pc = "getJson") =>
                   (~Failed(i) /\ checkIfModelMountExists(volumeMounts, req[i].modelName))
             /\ req'[i].pc = "unmount" =>
                   /\ req[i].pc = "getJson"
                   /\ req'[i].mountIndex + 1 \in DOMAIN volumeMounts
                   /\ volumeMounts[req'[i].mountIndex + 1] = MountPath(req[i].modelName)
             /\ (req[i].pc \in {"check", "getJson"} /\ NoMountOf(req[i].modelName)) =>
                   (req'[i].pc # "unmount" /\ ~InSeq("patchRemove", req'[i].log))
             /\ (/\ req[i].pc = "unmount" /\ ~Failed(i)
                 /\ req[i].mountIndex + 1 \in DOMAIN volumeMounts
                 /\ volumeMounts[req[i].mountIndex + 1] = MountPath(req[i].modelName)) =>
                   volumeMounts' =
                      SelectSeq(volumeMounts,
                                LAMBDA path : path # MountPath(req[i].modelName))]_vars

\* C25 witness: a single Delete(x), with no other request, has found x's mount,
\* patched it away and answered success; the mount of x.js is all that is left.
C25_Witness ==
    /\ issued = 1
    /\ req[1].op = "delete" /\ req[1].modelName = NameX
    /\ req[1].status = 200 /\ req[1].errors = << >>
    /\ InSeq("patchRemove", req[1].log)
    /\ volumeMounts = <<MountPath(NameXJs)>>

\* the handler in slot i is suspended on a command
InFlight(i) == req[i].pc \notin {"idle", "done"}

\* C26: a request responds only in a step in which the command it awaits exits (while
\* that command runs, the request stays as it is and unanswered); once it has
\* responded, nothing more is sent for it, its slot changing only when the next
\* request is received; and, every command exiting in the end, every request that is
\* in flight responds in the end.
C26_RespondsOnceCommandsExit ==
    /\ [][\A i \in Procs :
             /\ (InFlight(i) /\ Stepped(i)) =>
                   \/ (Failed(i) /\ Last(req'[i].errors) = Last(req[i].log))
                   \/ (~Failed(i) /\ Len(req'[i].log) = Len(req[i].log) + 1)
                   \/ (~Failed(i) /\ req'[i].pc = "done" /\ req'[i].status = 200)
             /\ (req'[i].pc = "done" /\ req[i].pc # "done") =>
                   (InFlight(i) /\ req'[i].status \in {200, 500})
             /\ (req[i].pc = "done" /\ Stepped(i)) => Received(i)]_vars
    /\ \A i \in Procs : InFlight(i) ~> (req[i].pc = "done")

\* C26 witness: both slots have answered, one request with success after its last
\* command and one with an error after a command that failed.
C26_Witness ==
    /\ req[1].pc = "done" /\ req[2].pc = "done"
    /\ \E i, j \in Procs :
          /\ req[i].status = 200 /\ req[i].errors = << >>
          /\ req[j].status = 500 /\ req[j].errors # << >>

\* the commands that change the cluster
MutatingCommands == {"apply", "patchAdd", "patchRemove", "restart"}

\* C27: a step of Validate or of a passthrough route leaves the in-memory map, the
\* file, the applied ConfigMap, the mounts and the requests as they were; no
\* passthrough route runs a mutating command; and any step in which no Deploy or
\* Delete runs and no other process edits the file (a step of List, of Get, of
\* Validate, of a passthrough) leaves the file and the cluster as they were.
C27_ReadOnlyRoutes ==
    [][/\ (validateVars' # validateVars \/ passthrough' # passthrough) =>
             UNCHANGED serverVars
       /\ passthrough'.command \notin MutatingCommands
       /\ (req' = req /\ edits' = edits) =>
             UNCHANGED <<configMapFile, appliedConfigMap, volumeMounts>>]_vars

\* C27 witness: after another process removed x.js from the file, a Validate was
\* answered, a passthrough route answered, and List() has run over the edited file
\* (it keeps x in memory): the file is still as the other process left it.
C27_Witness ==
    /\ validateRes # NoResponse
    /\ passthrough.pc = "done" /\ passthrough.route = "logs"
    /\ edits > 0
    /\ configMapFile = << >>
    /\ HasKey(currentModels, NameX)

\* C28: whenever no Deploy or Delete is in flight, every request that answered did so
\* with success, none of its commands having failed, and no other process edited the
\* file, the ConfigMap in the cluster equals the file.
C28_AppliedEqualsPersisted ==
    (/\ issued > 0 /\ edits = 0
     /\ \A i \in Procs : req[i].pc \in {"idle", "done"}
     /\ \A i \in Procs :
           req[i].pc = "done" => (req[i].status = 200 /\ req[i].errors = << >>))
    => appliedConfigMap = configMapFile

\* C29: whenever no request is in flight, every request received has answered with
\* success, none of its commands having failed, and no other process edited the
\* file, the mounts of the deployment are the mounts of the names in the in-memory
\* map, one for each.
C29_MountsMatchModels ==
    (/\ issued > 0 /\ edits = 0
     /\ \A i \in Procs : req[i].pc \in {"idle", "done"}
     /\ Cardinality({i \in Procs : req[i].pc = "done"}) = issued
     /\ \A i \in Procs :
           req[i].pc = "done" => (req[i].status = 200 /\ req[i].errors = << >>))
    => /\ {volumeMounts[k] : k \in DOMAIN volumeMounts}
             = {MountPath(n) : n \in KeysOf(currentModels)}
       /\ Len(volumeMounts) = Len(currentModels)

\* C30: the key n + '.js' that Deploy and Delete write for a tracked name n is mapped
\* back to n when the file is loaded; so, no other process having edited the file, a
\* List() that follows the requests finds every key's name tracked already and
\* leaves the set of tracked names as the requests left it.
C30_NameKeyRoundTrip ==
    [][(req' = req /\ edits = 0 /\ edits' = 0) =>
          /\ \A n \in KeysOf(currentModels) :
                HasKey(configMapFile, FileKey(n)) => KeyToModelName(FileKey(n)) = n
          /\ KeysOf(currentModels') = KeysOf(currentModels)]_vars

====
